---- MODULE Spec2Model ----
(***************************************************************************)
(* A model of the vhdx crate (src/src/lib.rs, bat.rs, log.rs, metadata.rs): *)
(* the BAT geometry and address translation, the Reader facade, and         *)
(* Vhdx::load with log discovery and log replay.                            *)
(*                                                                          *)
(* Units.  TLC's integers are 32 bits wide, the program's are u64.  Every   *)
(* byte offset, length and size of the model is therefore counted in units  *)
(* of 512 bytes (the smaller logical sector size): 4 KiB is 8, 1 MiB is     *)
(* 2048.  All arithmetic of the code on these quantities is +, -, min, /    *)
(* and % by other such quantities, which commutes with the scaling.  The    *)
(* file is held per 4 KiB sector (every structure the code parses or        *)
(* writes is 4 KiB aligned); a sector is lead (bytes 0..8), body (bytes     *)
(* 8..4092) and trail (bytes 4092..4096), the three pieces a Data           *)
(* descriptor of the log assembles.                                         *)
(***************************************************************************)
EXTENDS Integers, Sequences, FiniteSets, TLC

VARIABLES
    file,       \* the VHDX file: its length and its 4 KiB sectors
    metadata,   \* Vhdx.metadata: block_size, virtual_disk_size, logical_sector_size
    bat,        \* Vhdx.bat: block_size, chunk_ratio, entries
    geo,        \* what Bat::read computed from the metadata (SpecBat)
    lookup,     \* the last Bat::offset_to_entry call and its result (SpecBat)
    offset,     \* Reader.offset, the cursor
    rd,         \* the last Reader call: its arguments and what it returned
    delivered,  \* bytes returned by the reads made since the cursor was at 0
    pc,               \* where Vhdx::load is, and how it ended
    header_section,   \* Vhdx.header_section
    metadata_table,   \* Vhdx.metadata_table
    find_log,         \* find_log: current_tail, old_tail and candidate
    sequence,         \* try_replay_log: the active sequence find_log returned
    replay,           \* try_replay_log: the entry and descriptor its loops are at
    build,            \* the build once an addition overflowed: "debug" panics
                      \* on it (overflow checks), "release" wraps; "any" before
    hist,             \* history: the file as this load opened it, what it did
    guid_text,    \* Guid::from_str: the text it is given
    guid_parsed,  \* Guid::from_str: what it returned
    table_entry,  \* MetadataTableEntry::read: the 32 bytes it is given
    got           \* the last metadata table call and what it returned

diskvars == <<file, metadata, bat>>
batvars == <<geo, lookup>>
readvars == <<offset, rd, delivered>>
loadvars == <<pc, header_section, metadata_table, find_log, sequence, replay, build, hist>>
purevars == <<guid_text, guid_parsed, table_entry, got>>
vars == <<file, metadata, bat, geo, lookup, offset, rd, delivered,
          pc, header_section, metadata_table, find_log, sequence, replay, build, hist,
          guid_text, guid_parsed, table_entry, got>>

None == [outcome |-> "none"]

\* lib.rs:29  const KB: usize = 1024   (in units of 512 bytes)
KB == 1024 \div 512
\* lib.rs:30  const MB: usize = KB * KB  (1024 * 1024 bytes, in units of 512 bytes)
MB == 1024 * KB

Min(a, b) == IF a <= b THEN a ELSE b
Max(a, b) == IF a >= b THEN a ELSE b

\* a << n
Shl(a, n) == a * 2^n

\* `let v = x;` followed by Body: x is worked out once
Let(x, Body(_)) == CHOOSE y \in { Body(v) : v \in {x} } : TRUE

(***************************************************************************)
(* bat.rs: Bat::read and Bat::offset_to_entry, the arithmetic.              *)
(***************************************************************************)

\* bat.rs:101-109
div_ceil(dividend, divisor) ==
    LET d == dividend \div divisor
        r == dividend % divisor
    IN  IF r > 0 /\ divisor > 0 THEN d + 1 ELSE d

\* bat.rs:68   let chunk_ratio = (2 << 23) * logical_sector_size as u64 / block_size;
ChunkRatio(logical_sector_size, block_size) ==
    (Shl(2, 23) * logical_sector_size) \div block_size

\* bat.rs:64-74: the sizes Bat::read computes before it reads the entries.
\* block_size = 0 divides by zero (panic); a virtual disk size of 0 gives
\* payload_blocks_count - 1 = 0 - 1 on u64, which panics with overflow checks
\* and otherwise wraps to 2^64 - 1, whose quotient by chunk_ratio is not 0, so
\* that unimplemented!() panics: a panic in either build.
BatGeometry(md) ==
    LET virt_disk_size == md.virtual_disk_size
        logical_sector_size == md.logical_sector_size
        block_size == md.block_size
    IN  IF block_size = 0 THEN [outcome |-> "panic"]
        ELSE
        LET chunk_ratio == ChunkRatio(logical_sector_size, block_size)
            payload_blocks_count == div_ceil(virt_disk_size, block_size)
        IN  IF payload_blocks_count = 0 THEN [outcome |-> "panic"]
            ELSE
            LET total_bat_entries ==
                    payload_blocks_count + (payload_blocks_count - 1) \div chunk_ratio
            IN  IF total_bat_entries - payload_blocks_count # 0
                THEN [outcome |-> "unimplemented",
                      chunk_ratio |-> chunk_ratio,
                      payload_blocks_count |-> payload_blocks_count]
                ELSE [outcome |-> "ok",
                      block_size |-> block_size,
                      chunk_ratio |-> chunk_ratio,
                      payload_blocks_count |-> payload_blocks_count,
                      total_bat_entries |-> total_bat_entries]

\* bat.rs:91-98: the index and the residual of Bat::offset_to_entry for a BAT
\* of n_entries entries; entries.get(bat_index).unwrap() panics past the end.
EntryIndex(block_size, chunk_ratio, n_entries, off) ==
    LET payload_block_index == off \div block_size
        sector_bitmap_blocks == payload_block_index \div chunk_ratio
        bat_index == payload_block_index + sector_bitmap_blocks
        base_address == payload_block_index * block_size
    IN  IF bat_index >= n_entries
        THEN [outcome |-> "panic"]
        ELSE [outcome |-> "ok", bat_index |-> bat_index,
              residual |-> off - base_address]

(***************************************************************************)
(* The file (std::fs::File): its length and its content, one record per    *)
(* 4 KiB sector that is not all zero bytes.                                 *)
(***************************************************************************)

\* lib.rs:32  static ZEROS: [u8; 4 * KB] = [0; 4 * KB];  a sector of zero bytes
ZEROS == [lead |-> [sig |-> "zero"], body |-> [k |-> "zero"], trail |-> 0]

\* the sector that holds position pos (zero bytes where the file holds none)
SectorAt(f, pos) ==
    IF (pos \div (4 * KB)) \in DOMAIN f.sec THEN f.sec[pos \div (4 * KB)] ELSE ZEROS

\* File::write_all of one 4 KiB sector at pos: the file grows when the
\* sector ends past its length
WriteSector(f, pos, sector) ==
    LET s == pos \div (4 * KB)
        keep == IF sector = ZEROS THEN DOMAIN f.sec \ {s} ELSE DOMAIN f.sec \cup {s}
    IN  [len |-> Max(f.len, pos + 4 * KB),
         sec |-> [x \in keep |-> IF x = s THEN sector ELSE f.sec[x]]]

\* 512 bytes of zeros, and the 512 bytes at pos
ZeroUnit == [s |-> ZEROS, k |-> 0]
UnitAt(f, pos) ==
    IF SectorAt(f, pos) = ZEROS THEN ZeroUnit
    ELSE [s |-> SectorAt(f, pos), k |-> pos % (4 * KB)]

\* File::read(buf) at pos with room for n: the counts it may return.  It
\* returns 0 only for n = 0 or at end of file, and may return less than asked
\* (std::io::Read: "it is not an error if the returned value n is smaller
\* than the buffer size")
FileReadCounts(f, pos, n) ==
    IF n = 0 \/ pos >= f.len THEN {0} ELSE 1 .. Min(n, f.len - pos)

\* the bytes a read of count bytes at pos returns
FileBytes(f, pos, count) == [i \in 1 .. count |-> UnitAt(f, pos + i - 1)]

(***************************************************************************)
(* bat.rs: BatEntry and Bat::read.  A BAT entry is 8 bytes, 512 to a        *)
(* sector: the first is the sector's lead, the others are in its body.      *)
(* A raw entry is [bits, addr]: the low three bits of the u64 and the       *)
(* address it carries.                                                      *)
(***************************************************************************)

RawZero == [bits |-> 0, addr |-> 0]

\* the i-th (from 0) 8-byte value after pos, as BatEntry::read's read_exact
\* finds it (bat.rs:35-38)
RawEntryAt(f, pos, i) ==
    LET sector == SectorAt(f, pos + (i \div 512) * (4 * KB))
        slot == i % 512
    IN  CASE sector = ZEROS -> RawZero
          [] sector # ZEROS /\ sector.body.k = "bat" /\ slot = 0 -> sector.lead.e
          [] sector # ZEROS /\ sector.body.k = "bat" /\ slot > 0 ->
                IF slot <= Len(sector.body.ents) THEN sector.body.ents[slot] ELSE RawZero

\* bat.rs:14-24  PayloadBatEntryState::from_bits
from_bits(value) ==
    CASE value = 0 -> "NotPresent"
      [] value = 1 -> "Undefined"
      [] value = 2 -> "Zero"
      [] value = 3 -> "Unmapped"
      [] value = 6 -> "FullyPresent"
      [] value = 7 -> "PartiallyPresent"
      [] OTHER -> "panic"

\* bat.rs:34-45  BatEntry::read: the state from the low three bits, the file
\* offset from the value masked with 0xFFFFFFFFFFF00000 (its 1 MiB multiple)
BatEntryRead(raw) ==
    [state |-> from_bits(raw.bits), file_offset |-> (raw.addr \div MB) * MB]

\* bat.rs:64-85  Bat::read with the file positioned at pos: read_exact past
\* the end of the file and an unknown state panic
BatRead(f, pos, md) ==
    LET g == BatGeometry(md)
    IN  IF g.outcome # "ok" THEN [outcome |-> g.outcome]
        ELSE IF pos + ((g.total_bat_entries + 63) \div 64) > f.len
                \/ \E i \in 0 .. g.total_bat_entries - 1 :
                       from_bits(RawEntryAt(f, pos, i).bits) = "panic"
        THEN [outcome |-> "panic"]
        ELSE [outcome |-> "ok",
              block_size |-> g.block_size,
              chunk_ratio |-> g.chunk_ratio,
              entries |-> [i \in 1 .. g.total_bat_entries |->
                              BatEntryRead(RawEntryAt(f, pos, i - 1))]]

\* bat.rs:91-98  Bat::offset_to_entry
OffsetToEntry(b, off) ==
    LET r == EntryIndex(b.block_size, b.chunk_ratio, Len(b.entries), off)
    IN  IF r.outcome # "ok" THEN [outcome |-> "panic"]
        ELSE [outcome |-> "ok", entry |-> b.entries[r.bat_index + 1],
              residual |-> r.residual]

(***************************************************************************)
(* lib.rs: the header section, the region tables, the metadata table and    *)
(* the metadata items, as Vhdx::load decodes them from the file.  A GUID is *)
(* held as its canonical text.  Every decoder yields an outcome: "ok",      *)
(* "io" (read_exact met the end of the file: Error::Io), "panic" (an        *)
(* assert!, an unwrap) or "invalid_signature" (Error::InvalidSignature).    *)
(***************************************************************************)

\* guid.rs:10  Guid::ZERO
ZERO == "00000000-0000-0000-0000-000000000000"
\* lib.rs:26-27
REGION_GUID_BAT == "2DC27766-F623-4200-9D64-115E9BFD4A08"
REGION_GUID_METADATA == "8B7CA206-4790-4B9A-B8FE-575F050F886E"
\* metadata.rs:27, 57, 81, 105, 132, 154  MetadataItem::GUID
GUID_FileParameters == "CAA16737-FA36-4D43-B3B6-33F0AA44E76B"
GUID_VirtualDiskSize == "2FA54224-CD1B-4876-B211-5DBED83BF4B8"
GUID_VirtualDiskId == "BECA12AB-B2E6-4523-93EF-C309E000C746"
GUID_LogicalSectorSize == "8141BF1D-A96F-4709-BA47-F233A8FAAB5F"
GUID_PhysicalSectorSize == "CDA348C7-445D-4471-9CC9-E9885251C556"
GUID_ParentLocator == "A8D35F2D-B30B-454D-ABF7-D3D84834AB0C"

Panic == [outcome |-> "panic"]
Io == [outcome |-> "io"]
InvalidSignature == [outcome |-> "invalid_signature"]

\* the ways load and read return an error to their caller: the variants of
\* Error (lib.rs:35-40); every other failure is a panic
Errors == {"io", "invalid_signature"}

\* read_exact of n bytes (at most a sector) at pos meets the end of the file
PastEnd(f, pos, n) == pos + n > f.len

\* lib.rs:51-66  FileTypeIdentifier::read
FileTypeIdentifierRead(f) ==
    IF PastEnd(f, 0, KB) THEN Io
    ELSE IF SectorAt(f, 0).lead.sig # "vhdxfile" THEN Panic
    ELSE [outcome |-> "ok", signature |-> "vhdxfile"]

\* lib.rs:86-121  Header::read (128 bytes at pos)
HeaderRead(f, pos) ==
    LET sector == SectorAt(f, pos)
        h == sector.body
    IN  IF PastEnd(f, pos, 1) THEN Io
        ELSE IF sector.lead.sig # "head" THEN Panic
        ELSE IF \/ h.log_version # 0
                \/ h.version # 1
                \/ h.log_length % MB # 0
                \/ h.log_offset % MB # 0
        THEN Panic
        ELSE [outcome |-> "ok",
              sequence_number |-> h.sequence_number,
              log_guid |-> h.log_guid,
              log_length |-> h.log_length,
              log_offset |-> h.log_offset]

\* lib.rs:142-145  the asserts of RegionTableEntry::read
RegionTableEntryOk(e) ==
    /\ e.file_offset % MB = 0
    /\ e.file_offset > MB
    /\ e.length % MB = 0
    /\ (e.required = 0 \/ e.guid \in {REGION_GUID_BAT, REGION_GUID_METADATA})

\* lib.rs:166-187  RegionTable::read
RegionTableRead(f, pos) ==
    LET sector == SectorAt(f, pos)
    IN  IF PastEnd(f, pos, 1) THEN Io
        ELSE IF sector.lead.sig # "regi" THEN Panic
        ELSE IF Len(sector.body.entries) > 2047 THEN Panic
        ELSE IF \E i \in 1 .. Len(sector.body.entries) :
                    ~RegionTableEntryOk(sector.body.entries[i])
        THEN Panic
        ELSE [outcome |-> "ok", entries |-> sector.body.entries]

\* the first failure of a sequence of decoding results, or "ok"
FirstFailure(results) ==
    IF \A i \in 1 .. Len(results) : results[i].outcome = "ok" THEN "ok"
    ELSE results[CHOOSE i \in 1 .. Len(results) :
                    /\ results[i].outcome # "ok"
                    /\ \A j \in 1 .. i - 1 : results[j].outcome = "ok"].outcome

\* lib.rs:281-299  HeaderSection::read
HeaderSectionRead(f) ==
    LET file_type_identifier == FileTypeIdentifierRead(f)
        header_1 == HeaderRead(f, 64 * KB)
        header_2 == HeaderRead(f, 128 * KB)
        region_table_1 == RegionTableRead(f, 192 * KB)
        region_table_2 == RegionTableRead(f, 256 * KB)
        failed == FirstFailure(<<file_type_identifier, header_1, header_2,
                                 region_table_1, region_table_2>>)
    IN  IF failed # "ok" THEN [outcome |-> failed]
        ELSE [outcome |-> "ok",
              header_1 |-> header_1,
              header_2 |-> header_2,
              region_table_1 |-> region_table_1,
              region_table_2 |-> region_table_2]

current_header_first(hs) == hs.header_1

\* lib.rs:613-619  Vhdx::current_header: std::cmp::max_by_key returns the
\* second argument when the keys are equal
current_header(hs) ==
    IF hs.header_1.sequence_number > hs.header_2.sequence_number
    THEN hs.header_1 ELSE hs.header_2

\* lib.rs:366-371, 382-387  region_table_1.entries.iter().find(..).unwrap()
FindRegion(hs, guid) ==
    LET es == hs.region_table_1.entries
    IN  IF \E i \in 1 .. Len(es) : es[i].guid = guid
        THEN [outcome |-> "ok",
              entry |-> es[CHOOSE i \in 1 .. Len(es) :
                              /\ es[i].guid = guid
                              /\ \A j \in 1 .. i - 1 : es[j].guid # guid]]
        ELSE Panic

\* lib.rs:202-230  MetadataTableEntry::read: the asserts, and is_empty (the
\* length of an item is kept in bytes)
MetadataTableEntryRead(e) ==
    IF \/ ~(e.offset >= 64 * KB)
       \/ ~(e.length <= 1024 * 1024)
       \/ (e.length = 0 /\ e.offset # 0)
    THEN Panic
    ELSE [outcome |-> "ok", item_id |-> e.item_id, offset |-> e.offset,
          length |-> e.length, is_empty |-> (e.length = 0)]

\* lib.rs:240-256  MetadataTable::read
MetadataTableRead(f, pos) ==
    LET sector == SectorAt(f, pos)
    IN  IF PastEnd(f, pos, 1) THEN Io
        ELSE IF sector.lead.sig # "metadata" THEN Panic
        ELSE IF Len(sector.body.entries) > 2047 THEN Panic
        ELSE IF \E i \in 1 .. Len(sector.body.entries) :
                    MetadataTableEntryRead(sector.body.entries[i]).outcome # "ok"
        THEN Panic
        ELSE [outcome |-> "ok",
              entries |-> [i \in 1 .. Len(sector.body.entries) |->
                              MetadataTableEntryRead(sector.body.entries[i])]]

\* metadata.rs:29-42, 59-66, 83-90, 107-117, 134-144, 156-170  the item
\* decoders: read_exact(..).unwrap() of the item's first bytes (the lead of
\* its sector) and the item's assert
ItemRead(guid, f, pos) ==
    LET lead == SectorAt(f, pos).lead
        value == IF lead.sig = "item" THEN lead.v ELSE 0
    IN  IF PastEnd(f, pos, 1) THEN Panic
        ELSE IF guid \in {GUID_LogicalSectorSize, GUID_PhysicalSectorSize}
                /\ value \notin {512 \div 512, 4096 \div 512}
        THEN Panic
        ELSE IF guid = GUID_ParentLocator /\ value # "B04AEFB7-D19E-4A81-B789-25B8E9445913"
        THEN Panic
        ELSE [outcome |-> "ok", value |-> value]

\* lib.rs:258-268  MetadataTable::get: the first entry with the item's GUID,
\* kept when it is not empty, decoded at offset + e.offset
MetadataTableGet(table, f, base, guid) ==
    LET es == table.entries
        hit == { i \in 1 .. Len(es) : es[i].item_id = guid }
        first == CHOOSE i \in hit : \A j \in hit : i <= j
    IN  IF hit = {} \/ es[first].is_empty THEN [outcome |-> "none"]
        ELSE ItemRead(guid, f, base + es[first].offset)

\* lib.rs:313-343  Metadata::from_table: the five items it unwraps, and the
\* optional parent locator
MetadataFromTable(f, table, base) ==
    LET file_parameters == MetadataTableGet(table, f, base, GUID_FileParameters)
        virtual_disk_size == MetadataTableGet(table, f, base, GUID_VirtualDiskSize)
        virtual_disk_id == MetadataTableGet(table, f, base, GUID_VirtualDiskId)
        logical_sector_size == MetadataTableGet(table, f, base, GUID_LogicalSectorSize)
        physical_sector_size == MetadataTableGet(table, f, base, GUID_PhysicalSectorSize)
        parent_locator == MetadataTableGet(table, f, base, GUID_ParentLocator)
    IN  IF \/ file_parameters.outcome # "ok"
           \/ virtual_disk_size.outcome # "ok"
           \/ virtual_disk_id.outcome # "ok"
           \/ logical_sector_size.outcome # "ok"
           \/ physical_sector_size.outcome # "ok"
           \/ parent_locator.outcome = "panic"
        THEN Panic
        ELSE [outcome |-> "ok",
              block_size |-> file_parameters.value,
              virtual_disk_size |-> virtual_disk_size.value,
              virtual_disk_id |-> virtual_disk_id.value,
              logical_sector_size |-> logical_sector_size.value,
              physical_sector_size |-> physical_sector_size.value,
              has_parent_locator |-> (parent_locator.outcome = "ok")]

(***************************************************************************)
(* log.rs: a log entry as Entry::read decodes it.  The entry's header and   *)
(* its descriptors are in the entry's first sector (64 bytes and 32 bytes   *)
(* each), its data sectors follow.  A descriptor is                         *)
(*   [sig |-> "zero", zero_length, file_offset, sequence_number]  or        *)
(*   [sig |-> "desc", leading, trailing, file_offset, sequence_number],     *)
(* leading being the lead and trailing the trail of the sector to write.    *)
(* Every signature of the model is valid UTF-8 (String::from_utf8 of other  *)
(* bytes panics).                                                           *)
(***************************************************************************)

\* log.rs:303-311
next_multiple_of(value, rhs) ==
    LET r == value % rhs
    IN  IF r = 0 THEN value ELSE value + (rhs - r)

\* log.rs:44-48  the asserts of LogEntryHeader::read
LogEntryHeaderOk(h) ==
    /\ h.entry_length % (4 * KB) = 0
    /\ h.tail % (4 * KB) = 0
    /\ h.sequence_number > 0
    /\ h.flushed_file_offset % MB = 0
    /\ h.last_file_offset % MB = 0

\* log.rs:239-249, 92-94, 137-138  one descriptor: an unknown signature is
\* Error::InvalidSignature, a misaligned field fails an assert
DescriptorRead(d) ==
    IF d.sig \notin {"zero", "desc"} THEN InvalidSignature
    ELSE IF d.sig = "zero" /\ (d.zero_length % (4 * KB) # 0 \/ d.file_offset % (4 * KB) # 0)
    THEN Panic
    ELSE IF d.sig = "desc" /\ d.file_offset % (4 * KB) # 0 THEN Panic
    ELSE [outcome |-> "ok"]

\* log.rs:184-201  DataSector::read
DataSectorRead(f, pos) ==
    LET sector == SectorAt(f, pos)
    IN  IF PastEnd(f, pos, 4 * KB) THEN Io
        ELSE IF sector.lead.sig # "data" THEN Panic
        ELSE [outcome |-> "ok", data |-> sector.body, sequence_low |-> sector.trail]

\* log.rs:225-288  Entry::read with the file positioned at pos; end is the
\* position it leaves the file at
EntryRead(f, pos) ==
    LET sector == SectorAt(f, pos)
        h == sector.body
        descs == [i \in 1 .. Len(h.descs) |-> DescriptorRead(h.descs[i])]
        data_start == pos + (next_multiple_of(64 + 32 * Len(h.descs), 4 * 1024) \div 512)
        num_data_sectors == Cardinality({ i \in 1 .. Len(h.descs) : h.descs[i].sig = "desc" })
        sectors == [j \in 1 .. num_data_sectors |->
                        DataSectorRead(f, data_start + (j - 1) * 4 * KB)]
        current_position == data_start + num_data_sectors * 4 * KB
    IN  IF PastEnd(f, pos, 1) THEN Io
        ELSE IF sector.lead.sig # "loge" THEN InvalidSignature
        ELSE IF ~LogEntryHeaderOk(h) THEN Panic
        ELSE IF FirstFailure(descs) # "ok" THEN [outcome |-> FirstFailure(descs)]
        ELSE IF FirstFailure(sectors) # "ok" THEN [outcome |-> FirstFailure(sectors)]
        ELSE IF current_position # pos + h.entry_length THEN Panic
        ELSE [outcome |-> "ok",
              end |-> current_position,
              entry |-> [header |-> [entry_length |-> h.entry_length,
                                     tail |-> h.tail,
                                     sequence_number |-> h.sequence_number,
                                     log_guid |-> h.log_guid,
                                     flushed_file_offset |-> h.flushed_file_offset,
                                     last_file_offset |-> h.last_file_offset],
                         descriptors |-> h.descs,
                         data_sectors |-> sectors]]

(***************************************************************************)
(* lib.rs: LogSequence and Vhdx::find_log.  A sequence is                   *)
(* [sequence_number, entries], entries being <<[offset, entry]>> with the   *)
(* offset taken from the start of the log.                                  *)
(***************************************************************************)

EmptySequence == [sequence_number |-> 0, entries |-> << >>]

\* lib.rs:635-637
head(seq) == seq.entries[Len(seq.entries)].entry

\* lib.rs:653-655
is_empty(seq) == seq.entries = << >>

\* lib.rs:643-651  LogSequence::is_valid
is_valid(seq) ==
    /\ ~is_empty(seq)
    /\ \E i \in 1 .. Len(seq.entries) :
           seq.entries[i].offset = head(seq).header.tail

ExtendsAlways(current, entry) == TRUE

\* lib.rs:453-460  the entry read extends the current sequence: it is the
\* first, or its sequence number is the head's plus one
Extends(current, entry) ==
    \/ is_empty(current)
    \/ entry.header.sequence_number = head(current).header.sequence_number + 1

\* lib.rs:444-475  step 3, the inner loop from position pos: the sequence
\* `current` it leaves and head_value, or the error it propagates.
\* ScanEntry is the body of the loop for the result r of Entry::read at pos
RECURSIVE ScanEntries(_, _, _, _, _, _)
RECURSIVE ScanEntry(_, _, _, _, _, _, _)
ScanEntry(f, pos, log_offset, log_guid, current, head_value, r) ==
    LET first == is_empty(current)
        extends == Extends(current, r.entry)
        pushed == [sequence_number |-> IF first THEN r.entry.header.sequence_number
                                       ELSE current.sequence_number,
                   entries |-> Append(current.entries,
                                      [offset |-> pos - log_offset, entry |-> r.entry])]
    IN  IF r.outcome = "invalid_signature"
        THEN [outcome |-> "ok", current |-> current, head_value |-> head_value]
        ELSE IF r.outcome # "ok" THEN [outcome |-> r.outcome]
        ELSE IF r.entry.header.log_guid # log_guid
        THEN [outcome |-> "ok", current |-> current, head_value |-> head_value]
        ELSE Let([current |-> IF extends THEN pushed ELSE current,
                  head_value |-> IF extends THEN pos ELSE head_value],
                 LAMBDA next : ScanEntries(f, r.end, log_offset, log_guid,
                                           next.current, next.head_value))

ScanEntries(f, pos, log_offset, log_guid, current, head_value) ==
    Let(EntryRead(f, pos),
        LAMBDA r : ScanEntry(f, pos, log_offset, log_guid, current, head_value, r))

\* lib.rs:477-504  steps 4 to 7 after the inner loop left `scan`: "continue"
\* with the next st, or "break" with the candidate
AfterScan(header, st, scan) ==
    LET log_offset == header.log_offset
        log_length == header.log_length
        current == scan.current
        is_current_sequence_valid == is_valid(current)
        is_current_sequence_empty == is_empty(current)
        candidate == IF is_current_sequence_valid
                        /\ current.sequence_number > st.candidate.sequence_number
                     THEN current ELSE st.candidate
        stepped == st.current_tail + 4 * KB
        current_tail == IF is_current_sequence_empty \/ ~is_current_sequence_valid
                        THEN IF stepped >= log_offset + log_length
                             THEN stepped - log_length ELSE stepped
                        ELSE scan.head_value
    IN  IF scan.outcome # "ok" THEN [outcome |-> scan.outcome]
        ELSE IF current_tail < st.old_tail
        THEN [outcome |-> "break", candidate |-> candidate, current |-> current]
        ELSE [outcome |-> "continue",
              st |-> [current_tail |-> current_tail, old_tail |-> current_tail,
                      candidate |-> candidate, current |-> current,
                      iteration |-> (st.iteration + 1) % 2]]

\* lib.rs:434-505  one iteration of the outer loop of find_log (steps 2 to
\* 7) from st = [current_tail, old_tail, candidate, current, iteration],
\* current being the sequence the iteration before left and iteration the
\* number of iterations made, modulo 2: "continue" with the
\* next st, "break" with the candidate, or the error of step 3
FindLogIteration(f, header, st) ==
    Let(ScanEntries(f, st.current_tail, header.log_offset, header.log_guid,
                    EmptySequence, st.current_tail),
        LAMBDA scan : AfterScan(header, st, scan))

\* lib.rs:427-432  step 1
FindLogStart(header) ==
    [current_tail |-> header.log_offset, old_tail |-> header.log_offset,
     candidate |-> EmptySequence, current |-> EmptySequence, iteration |-> 0]

\* lib.rs:507-525  after the loop: no candidate and a truncated file panic
FindLogFinish(f, candidate) ==
    IF is_empty(candidate) THEN Panic
    ELSE IF f.len < head(candidate).header.flushed_file_offset THEN Panic
    ELSE [outcome |-> "ok", sequence |-> candidate]

(***************************************************************************)
(* lib.rs: Vhdx::try_replay_log, one descriptor at a time.                  *)
(***************************************************************************)

\* u64 arithmetic is modulo 2^64 bytes; the model's word is 2^30 units, far
\* above every length of the model as 2^64 is above every file's
U64Units == Shl(1, 30)

\* the storage refuses to grow a file by more than MaxGrow sectors
\* (write_all then fails: Error::Io)
MaxGrow == 2

\* a + b on u64 (lib.rs:553): with overflow checks (a debug build) an
\* overflow panics, without (a release build) the sum wraps
AddU64(a, b, checks) ==
    IF a + b < U64Units THEN [outcome |-> "ok", value |-> a + b]
    ELSE IF checks THEN Panic
    ELSE [outcome |-> "ok", value |-> (a + b) % U64Units]

\* the sum of lib.rs:553 overflows
Overflows(desc) ==
    desc.sig = "zero" /\ desc.file_offset + desc.zero_length >= U64Units

\* lib.rs:557-561  seek to file_offset and num_sectors times write_all(&ZEROS)
WriteZeros(f, file_offset, num_sectors) ==
    LET room == (f.len + MaxGrow * 4 * KB - file_offset) \div (4 * KB)
        n == Min(num_sectors, room)
        first == file_offset \div (4 * KB)
        keep == { x \in DOMAIN f.sec : x < first \/ x >= first + n }
    IN  [outcome |-> IF n < num_sectors THEN "io" ELSE "ok",
         file |-> [len |-> Max(f.len, file_offset + n * 4 * KB),
                   sec |-> [x \in keep |-> f.sec[x]]]]

\* lib.rs:548-561  a Zero descriptor: the two bounds checks, then the write
ZeroDescriptor(f, desc, checks) ==
    LET file_length == f.len
        ends == AddU64(desc.file_offset, desc.zero_length, checks)
    IN  IF desc.file_offset >= file_length THEN [outcome |-> "panic", file |-> f]
        ELSE IF ends.outcome # "ok" THEN [outcome |-> "panic", file |-> f]
        ELSE IF ends.value >= file_length THEN [outcome |-> "panic", file |-> f]
        ELSE WriteZeros(f, desc.file_offset, desc.zero_length \div (4 * KB))

\* lib.rs:568-583  a Data descriptor and its data sector: the two bounds
\* checks, then leading_bytes, data and trailing_bytes written at file_offset
DataDescriptor(f, desc, data_sector) ==
    LET file_length == f.len
    IN  IF desc.file_offset >= file_length THEN [outcome |-> "panic", file |-> f]
        ELSE IF desc.file_offset + 4 * KB >= file_length
        THEN [outcome |-> "panic", file |-> f]
        ELSE [outcome |-> "ok",
              file |-> WriteSector(f, desc.file_offset,
                                   [lead |-> desc.leading,
                                    body |-> data_sector.data,
                                    trail |-> desc.trailing])]

data_sector_offset_first(entry, j) == 0

\* lib.rs:540, 583  data_sector_offset when the loop reaches descriptor j of
\* the entry: the Data descriptors before it (from 0)
data_sector_offset(entry, j) ==
    Cardinality({ i \in 1 .. j - 1 : entry.descriptors[i].sig = "desc" })

\* lib.rs:541-585  the body of the loop for descriptor j of the entry
ReplayDescriptorOf(f, entry, j, checks) ==
    LET desc == entry.descriptors[j]
    IN  IF desc.sequence_number # entry.header.sequence_number
        THEN [outcome |-> "panic", file |-> f]
        ELSE IF desc.sig = "zero" THEN ZeroDescriptor(f, desc, checks)
        ELSE DataDescriptor(f, desc, entry.data_sectors[data_sector_offset(entry, j) + 1])

\* lib.rs:539-541  the loops' next position at or after descriptor j of
\* entry i: entries without descriptors are passed over; entry 0 when the
\* loops are over
RECURSIVE NextPosition(_, _, _)
NextPosition(seq, i, j) ==
    IF i > Len(seq.entries) THEN [entry |-> 0, desc |-> 0]
    ELSE IF j <= Len(seq.entries[i].entry.descriptors) THEN [entry |-> i, desc |-> j]
    ELSE NextPosition(seq, i + 1, 1)

(***************************************************************************)
(* SpecBat: Bat::read's geometry and Bat::offset_to_entry as functions of   *)
(* the metadata, over block sizes from 512 bytes to 256 MiB and virtual     *)
(* disk sizes around the multiples of the chunk ratio.                      *)
(***************************************************************************)

\* metadata.rs:112  assert!([512, 4096].contains(&logical_sector_size))
SectorSizes == {512 \div 512, 4096 \div 512}

\* block sizes: FileParameters::read (metadata.rs:29-42) accepts every u32;
\* these are 0 and sizes of the format's range, 1 MiB to 256 MiB
BlockSizes == {0, MB, 2 * MB, 32 * MB, 256 * MB}

MaxExtraBlocks == 2

\* payload block counts next to the points where the number of payload
\* blocks passes a multiple of (2^23 * L) / B and of (2 << 23) * L / B
BlockCounts(L, B) ==
    LET c == (Shl(1, 23) * L) \div B
    IN  (0 .. MaxExtraBlocks)
        \cup { c + d : d \in -1 .. MaxExtraBlocks }
        \cup { 2 * c + d : d \in -1 .. MaxExtraBlocks }

BatMetadatas ==
    { [block_size |-> B, logical_sector_size |-> L, virtual_disk_size |-> V] :
        <<B, L, V>> \in
          { <<0, L, V>> : L \in SectorSizes, V \in {0, 1} }
          \cup
          UNION { UNION { { <<B, L, n * B + r>> :
                             r \in {0, 1, B - 1},
                             n \in { m \in BlockCounts(L, B) : m >= 0 /\ m * B + B - 1 < 2^28 } } :
                          L \in SectorSizes } :
                  B \in BlockSizes \ {0} } }

\* offsets worth a lookup: the ends of the first blocks, of the blocks next to
\* the chunk-ratio multiples, and of the disk
LookupOffsets(md) ==
    LET B == md.block_size
        V == md.virtual_disk_size
        c == (Shl(1, 23) * md.logical_sector_size) \div B
    IN  { o \in { 0, B - 1, B, V - 1, V, V - B, V + B,
                  c * B - 1, c * B, c * B + B - 1, (c + 1) * B,
                  2 * c * B - 1, 2 * c * B } : o >= 0 }

\* no Vhdx::load under way (SpecBat, SpecRead)
NoLoad ==
    /\ pc = "none"
    /\ header_section = None
    /\ metadata_table = None
    /\ find_log = None
    /\ sequence = EmptySequence
    /\ replay = [entry |-> 0, desc |-> 0]
    /\ build = "any"
    /\ hist = None

\* no call of Guid::from_str nor of the metadata table (SpecBat, SpecRead,
\* SpecLoad)
NoPure ==
    /\ guid_text = None
    /\ guid_parsed = None
    /\ table_entry = None
    /\ got = None

InitBat ==
    /\ NoLoad
    /\ NoPure
    /\ metadata \in BatMetadatas
    /\ geo = None
    /\ lookup = None
    /\ file = None
    /\ bat = None
    /\ offset = 0
    /\ rd = None
    /\ delivered = None

\* Bat::read's computation (bat.rs:64-74)
BatReadStep ==
    /\ geo = None
    /\ geo' = BatGeometry(metadata)
    /\ UNCHANGED <<diskvars, lookup, readvars, purevars, loadvars>>

\* one Bat::offset_to_entry call on the BAT that Bat::read built (bat.rs:91-98)
OffsetToEntryStep ==
    /\ geo.outcome = "ok"
    /\ \E o \in LookupOffsets(metadata) :
          lookup' = [off |-> o,
                     res |-> EntryIndex(geo.block_size, geo.chunk_ratio,
                                        geo.total_bat_entries, o)]
    /\ UNCHANGED <<diskvars, geo, readvars, purevars, loadvars>>

NextBat == BatReadStep \/ OffsetToEntryStep

SpecBat == InitBat /\ [][NextBat]_vars

(***************************************************************************)
(* Claims about the BAT geometry (checked under SpecBat).                   *)
(***************************************************************************)

\* the chunk ratio of the BAT layout as the format defines it:
\* chunk_ratio = (2^23 * L) / B
LayoutChunkRatio(L, B) == (2^23 * L) \div B

\* a BAT index that holds a payload entry in the interleaved layout: every
\* chunk_ratio payload entries are followed by one sector-bitmap entry
IsPayloadSlot(bat_index, chunk_ratio) == (bat_index + 1) % (chunk_ratio + 1) # 0

\* C6: for every disk Bat::read accepts and every virtual offset o in [0, V),
\* offset_to_entry(o) succeeds with bat_index = floor(o/B) +
\* floor(floor(o/B) / chunk_ratio) < total_bat_entries, where chunk_ratio =
\* (2^23 * L) / B; that index is a payload slot of the interleaved layout,
\* and the residual is o mod B, in [0, B).
C6_OffsetToEntryPayloadSlot ==
    (geo.outcome = "ok" /\ lookup # None /\ lookup.off < metadata.virtual_disk_size) =>
        LET B == metadata.block_size
            cr == LayoutChunkRatio(metadata.logical_sector_size, B)
            o == lookup.off
            idx == (o \div B) + ((o \div B) \div cr)
        IN  /\ lookup.res.outcome = "ok"
            /\ lookup.res.bat_index = idx
            /\ lookup.res.bat_index < geo.total_bat_entries
            /\ IsPayloadSlot(lookup.res.bat_index, cr)
            /\ lookup.res.residual = o % B
            /\ lookup.res.residual >= 0
            /\ lookup.res.residual < B

\* C10: the chunk ratio Bat::read computes is (2^23 * L) / B for every
\* logical sector size L in {512, 4096} and block size B (4096 for L = 512,
\* B = 1 MiB), and the disk is declined as needing sector-bitmap blocks
\* exactly when floor((payload_blocks - 1) / ((2^23 * L) / B)) > 0.
C10_ChunkRatioOfLayout ==
    geo.outcome \in {"ok", "unimplemented"} =>
        LET cr == LayoutChunkRatio(metadata.logical_sector_size, metadata.block_size)
        IN  /\ geo.chunk_ratio = cr
            /\ (metadata.logical_sector_size = 512 \div 512 /\ metadata.block_size = MB)
                   => geo.chunk_ratio = 4096
            /\ (geo.outcome = "unimplemented")
                   <=> ((geo.payload_blocks_count - 1) \div cr > 0)

(***************************************************************************)
(* lib.rs: the Reader facade (Reader::read, Reader::seek, Vhdx::reader).    *)
(***************************************************************************)

\* lib.rs:684  NotPresent | Undefined | Zero | Unmapped
ZeroStates == {"NotPresent", "Undefined", "Zero", "Unmapped"}

NumToReadUncapped(buflen, block_size, residual) == buflen

\* lib.rs:676-677  the count a read call sets out to deliver
NumToRead(buflen, block_size, residual) ==
    LET bytes_remaining_in_block == block_size - residual
    IN  Min(buflen, bytes_remaining_in_block)

ReadZerosUnfilled(num_to_read) ==
    [ret |-> num_to_read, data |-> << >>, io |-> 0]

\* lib.rs:684-688  dest_slice.fill(0); num_to_read
ReadZeros(num_to_read) ==
    [ret |-> num_to_read, data |-> [i \in 1 .. num_to_read |-> ZeroUnit], io |-> 0]

\* lib.rs:689-695  seek to entry.file_offset + offset, one File::read into
\* dest_slice: the count returned and the bytes it put in the buffer
ReadPresent(f, pos, num_to_read) ==
    { [ret |-> n, data |-> FileBytes(f, pos, n), io |-> 2] :
        n \in FileReadCounts(f, pos, num_to_read) }

\* lib.rs:672-700  Reader::read at cursor with a buffer of buflen: what it can
\* return and where it leaves the cursor.  The cursor moves by num_to_read
\* before the entry's state is looked at.  File::seek and File::read may
\* fail, and the ? of lib.rs:693-694 then returns the error.
ReaderRead(b, md, f, cursor, buflen) ==
    LET look == OffsetToEntry(b, cursor)
    IN  IF look.outcome # "ok" THEN { [outcome |-> "panic", offset |-> cursor] }
        ELSE
        LET num_to_read == NumToRead(buflen, md.block_size, look.residual)
            moved == cursor + num_to_read
        IN  CASE look.entry.state \in ZeroStates ->
                   { [outcome |-> "ok", offset |-> moved, ret |-> ReadZeros(num_to_read).ret,
                      data |-> ReadZeros(num_to_read).data, io |-> ReadZeros(num_to_read).io] }
              [] look.entry.state = "FullyPresent" ->
                   { [outcome |-> "ok", offset |-> moved, ret |-> r.ret,
                      data |-> r.data, io |-> r.io] :
                       r \in ReadPresent(f, look.entry.file_offset + look.residual,
                                         num_to_read) }
                   \cup { [outcome |-> "io", offset |-> moved] }
              [] look.entry.state = "PartiallyPresent" ->
                   { [outcome |-> "panic", offset |-> moved] }

\* lib.rs:713, 717  u64::checked_add_signed(..).unwrap()
CheckedAddSigned(a, d) ==
    IF a + d < 0 THEN [outcome |-> "panic"] ELSE [outcome |-> "ok", value |-> a + d]

(***************************************************************************)
(* SpecRead: a Reader over loaded disks of one or two payload blocks of 1   *)
(* KiB or 1.5 KiB, every entry state, block-aligned and unaligned disk      *)
(* sizes, buffers up to more than a block.                                  *)
(***************************************************************************)

MaxBlocks == 2
MaxBuf == 4
MaxOffset == 8

\* where the disks of SpecRead keep the BAT and the payload blocks
BatBase == 3 * MB
PayloadBase == 4 * MB

PayloadSector(id) == [lead |-> [sig |-> "raw"], body |-> [k |-> "raw", v |-> id], trail |-> id]

\* raw BAT entries: the four states read as zeros, a block in each of the two
\* payload sectors (one with reserved low bits set), a differencing block
RawEntries ==
    { [bits |-> b, addr |-> 0] : b \in {0, 1, 2, 3} }
    \cup { [bits |-> 6, addr |-> PayloadBase], [bits |-> 6, addr |-> PayloadBase + MB + 1],
           [bits |-> 7, addr |-> PayloadBase] }

ReadFile(raws) ==
    [len |-> PayloadBase + 2 * MB,
     sec |-> [s \in {BatBase \div (4 * KB), PayloadBase \div (4 * KB),
                     (PayloadBase + MB) \div (4 * KB)} |->
                CASE s = BatBase \div (4 * KB) ->
                       [lead |-> [sig |-> "bat", e |-> raws[1]],
                        body |-> [k |-> "bat", ents |-> Tail(raws)], trail |-> 0]
                  [] s = PayloadBase \div (4 * KB) -> PayloadSector(1)
                  [] OTHER -> PayloadSector(2)]]

ReadDisks ==
    UNION { UNION { { [file |-> ReadFile(raws),
                       metadata |-> [block_size |-> B, logical_sector_size |-> 512 \div 512,
                                     virtual_disk_size |-> V]] :
                        raws \in [1 .. n -> RawEntries], V \in {n * B - 1, n * B} } :
                    n \in 1 .. MaxBlocks } :
            B \in {2, 3} }

InitRead ==
    /\ \E d \in ReadDisks :
          /\ file = d.file
          /\ metadata = d.metadata
          /\ bat = BatRead(d.file, BatBase, d.metadata)
    /\ bat.outcome = "ok"
    /\ offset = 0
    /\ rd = [call |-> "reader", outcome |-> "ok"]
    /\ delivered = 0
    /\ NoLoad
    /\ NoPure
    /\ geo = None
    /\ lookup = None

\* lib.rs:404-409  Vhdx::reader
Reader ==
    /\ rd.outcome # "panic"
    /\ offset' = 0
    /\ rd' = [call |-> "reader", outcome |-> "ok"]
    /\ delivered' = 0
    /\ UNCHANGED <<diskvars, batvars, purevars, loadvars>>

\* lib.rs:672-700  Reader::read
Read ==
    /\ rd.outcome # "panic"
    /\ \E buflen \in 0 .. MaxBuf :
         \E o \in ReaderRead(bat, metadata, file, offset, buflen) :
            /\ offset' = o.offset
            /\ rd' = [call |-> "read", after |-> rd.call, cursor |-> offset,
                      buflen |-> buflen, stream |-> delivered, res |-> o,
                      outcome |-> o.outcome]
            /\ delivered' = IF o.outcome = "ok" /\ delivered >= 0
                            THEN delivered + o.ret ELSE -1
    /\ UNCHANGED <<diskvars, batvars, purevars, loadvars>>

\* what a seek leaves behind
Sought(kind, r) ==
    /\ rd' = [call |-> kind, outcome |-> r.outcome]
    /\ offset' = IF r.outcome = "ok" THEN r.value ELSE offset
    /\ delivered' = IF r.outcome = "ok" /\ r.value = 0 THEN 0 ELSE -1
    /\ UNCHANGED <<diskvars, batvars, purevars, loadvars>>

\* lib.rs:706  SeekFrom::Start(offset)
SeekStart ==
    /\ rd.outcome # "panic"
    /\ \E o \in 0 .. MaxOffset : Sought("seek_start", [outcome |-> "ok", value |-> o])

\* lib.rs:707-715  SeekFrom::End(from_end)
SeekEnd ==
    /\ rd.outcome # "panic"
    /\ \E from_end \in {-MaxOffset, -1, 0, 1} :
          Sought("seek_end", CheckedAddSigned(metadata.virtual_disk_size, from_end))

\* lib.rs:716-718  SeekFrom::Current(offset)
SeekCurrent ==
    /\ rd.outcome # "panic"
    /\ \E d \in {-1, 1} :
          /\ offset + d <= MaxOffset
          /\ Sought("seek_current", CheckedAddSigned(offset, d))

NextRead == Reader \/ Read \/ SeekStart \/ SeekEnd \/ SeekCurrent

SpecRead == InitRead /\ [][NextRead]_vars

(***************************************************************************)
(* Claims about the Reader (checked under SpecRead).                        *)
(***************************************************************************)

\* the BAT entry of the payload block that holds virtual offset o, by the
\* interleaved layout of the format
EntryOfOffset(o) ==
    LET blk == o \div metadata.block_size
        cr == LayoutChunkRatio(metadata.logical_sector_size, metadata.block_size)
    IN  bat.entries[blk + (blk \div cr) + 1]

\* the virtual disk's content at logical offset o < V of a disk without
\* differencing blocks: zeros for the four absent states, the block's bytes
\* in the file for a FullyPresent block
VirtualUnit(o) ==
    IF EntryOfOffset(o).state \in ZeroStates THEN ZeroUnit
    ELSE UnitAt(file, EntryOfOffset(o).file_offset + (o % metadata.block_size))

\* block_size - (c mod block_size)
RestOfBlock(c) == metadata.block_size - (c % metadata.block_size)

NoDifferencingBlock ==
    \A i \in 1 .. Len(bat.entries) : bat.entries[i].state # "PartiallyPresent"

\* C3: reading from cursor 0 with any sequence of buffer sizes, and whatever
\* counts the file's reads return, the byte delivered at stream position p
\* is the virtual disk's byte at logical offset p, for all p in [0, V).
C3_StreamIsVirtualDisk ==
    (rd.call = "read" /\ rd.outcome = "ok" /\ rd.stream >= 0 /\ NoDifferencingBlock) =>
        \A i \in 1 .. rd.res.ret :
            rd.stream + i - 1 < metadata.virtual_disk_size
                => rd.res.data[i] = VirtualUnit(rd.stream + i - 1)

\* C7: after seek(SeekFrom::Start(V)) or seek(SeekFrom::End(0)) a read with
\* a non-empty buffer returns Ok(0), also when V is a multiple of the block
\* size.
C7_ReadAtEndIsEof ==
    (rd.call = "read" /\ rd.after \in {"seek_start", "seek_end"}
        /\ rd.cursor = metadata.virtual_disk_size /\ rd.buflen > 0) =>
        (rd.outcome = "ok" /\ rd.res.ret = 0)

\* a read call made at a cursor in a payload block whose BAT entry has a zero state
ReadOfZeroBlock ==
    /\ rd.call = "read"
    /\ rd.cursor \div metadata.block_size < Len(bat.entries)
    /\ EntryOfOffset(rd.cursor).state \in ZeroStates

\* C8: at a cursor whose BAT entry is NotPresent, Undefined, Zero or
\* Unmapped, read fills the first num_to_read = min(buf.len(), block_size -
\* residual) bytes of the buffer with zeros, returns num_to_read and does not
\* touch the file.
C8_ZeroBlockReadsZeros ==
    ReadOfZeroBlock =>
        LET n == Min(rd.buflen, RestOfBlock(rd.cursor))
        IN  /\ rd.outcome = "ok"
            /\ rd.res.ret = n
            /\ rd.res.data = [i \in 1 .. n |-> ZeroUnit]
            /\ rd.res.io = 0

\* a zero-state read from the middle of a block with a buffer longer than
\* the rest of the block
C8_Witness ==
    /\ ReadOfZeroBlock
    /\ rd.cursor % metadata.block_size # 0
    /\ rd.buflen > RestOfBlock(rd.cursor)
    /\ rd.res.ret = RestOfBlock(rd.cursor)

\* C9: a read call at cursor c returns at most block_size - (c mod
\* block_size) bytes, so what one call returns lies in one payload block,
\* for every buffer length and block state.
C9_ReadStaysInBlock ==
    (rd.call = "read" /\ rd.outcome = "ok") =>
        /\ rd.res.ret <= RestOfBlock(rd.cursor)
        /\ rd.res.ret > 0 =>
              (rd.cursor + rd.res.ret - 1) \div metadata.block_size
                  = rd.cursor \div metadata.block_size

\* a read of a FullyPresent block, from the middle of the block, that asked
\* for more than the rest of the block and got all of the rest
C9_Witness ==
    /\ rd.call = "read"
    /\ rd.outcome = "ok"
    /\ rd.cursor < metadata.virtual_disk_size
    /\ EntryOfOffset(rd.cursor).state = "FullyPresent"
    /\ rd.cursor % metadata.block_size # 0
    /\ rd.buflen > RestOfBlock(rd.cursor)
    /\ rd.res.ret = RestOfBlock(rd.cursor)

\* a read call made at a cursor in a payload block whose BAT entry is
\* PartiallyPresent
ReadOfPartiallyPresent ==
    /\ rd.call = "read"
    /\ rd.cursor \div metadata.block_size < Len(bat.entries)
    /\ EntryOfOffset(rd.cursor).state = "PartiallyPresent"

\* C12: Reader::read at a cursor whose BAT entry state is PartiallyPresent
\* fails with an error returned to the caller.
C12_PartiallyPresentIsReturned ==
    ReadOfPartiallyPresent => rd.outcome \in Errors

\* C22: the cursor and the byte counts agree: after a read call that returned
\* Ok(n) the cursor is the cursor before the call plus n, so after
\* successful reads from cursor 0 the cursor is the sum of the counts
\* returned (also when the file's read was short); a read call that returned
\* an error has left the cursor where it was.
C22_CursorFollowsCounts ==
    rd.call = "read" =>
        /\ rd.outcome = "ok" => offset = rd.cursor + rd.res.ret
        /\ (rd.outcome = "ok" /\ delivered >= 0) => offset = delivered
        /\ rd.outcome \in Errors => offset = rd.cursor

\* C23: reads never pass the end of the virtual disk: a read call at a cursor
\* c <= V that returns Ok(n) has c + n <= V, for every buffer length, also
\* when V is not a multiple of the block size and c lies in the last,
\* partial payload block.
C23_ReadStaysInDisk ==
    (rd.call = "read" /\ rd.outcome = "ok" /\ rd.cursor <= metadata.virtual_disk_size) =>
        rd.cursor + rd.res.ret <= metadata.virtual_disk_size

(***************************************************************************)
(* SpecLoad: Vhdx::load, twice or more, on files of 5 MiB: the header       *)
(* section, a log of 1 MiB at 1 MiB, the metadata region at 2 MiB, the BAT  *)
(* at 3 MiB and one payload block at 4 MiB.  The files differ in their two  *)
(* headers and in the entries of the log.                                   *)
(***************************************************************************)

MaxLoads == 2
MaxDescs == 2

LogOffset == MB
LogLength == MB
MetadataBase == 2 * MB
LoadFileLen == PayloadBase + MB

LogGuidA == "A0A0A0A0-0000-4000-8000-00000000000A"
LogGuidB == "B0B0B0B0-0000-4000-8000-00000000000B"

HeaderSector(h) ==
    [lead |-> [sig |-> "head"],
     body |-> [k |-> "head", sequence_number |-> h.sequence_number,
               log_guid |-> h.log_guid, log_version |-> 0, version |-> 1,
               log_length |-> LogLength, log_offset |-> LogOffset],
     trail |-> 0]

RegionTableSector ==
    [lead |-> [sig |-> "regi"],
     body |-> [k |-> "regi",
               entries |-> <<[guid |-> REGION_GUID_BAT, file_offset |-> BatBase,
                              length |-> MB, required |-> 1],
                             [guid |-> REGION_GUID_METADATA, file_offset |-> MetadataBase,
                              length |-> MB, required |-> 1]>>],
     trail |-> 0]

\* the metadata items of the files: a block of 1 MiB, a disk of one block
LoadItems ==
    <<[item_id |-> GUID_FileParameters, value |-> MB, length |-> 8],
      [item_id |-> GUID_VirtualDiskSize, value |-> MB, length |-> 8],
      [item_id |-> GUID_VirtualDiskId, value |-> "D0D0D0D0-0000-4000-8000-00000000000D",
       length |-> 16],
      [item_id |-> GUID_LogicalSectorSize, value |-> 512 \div 512, length |-> 4],
      [item_id |-> GUID_PhysicalSectorSize, value |-> 4096 \div 512, length |-> 4]>>

ItemOffset(i) == 64 * KB + (i - 1) * 4 * KB

MetadataTableSector ==
    [lead |-> [sig |-> "metadata"],
     body |-> [k |-> "mtab",
               entries |-> [i \in 1 .. Len(LoadItems) |->
                               [item_id |-> LoadItems[i].item_id,
                                offset |-> ItemOffset(i),
                                length |-> LoadItems[i].length]]],
     trail |-> 0]

ItemSector(v) == [lead |-> [sig |-> "item", v |-> v], body |-> [k |-> "item"], trail |-> 0]

\* the sectors of a file outside its log
BaseSectors(header_1, header_2) ==
    LET at == [p \in {0, 64 * KB, 128 * KB, 192 * KB, 256 * KB, MetadataBase, PayloadBase}
                     \cup { MetadataBase + ItemOffset(i) : i \in 1 .. Len(LoadItems) } |->
                 CASE p = 0 -> [lead |-> [sig |-> "vhdxfile"], body |-> [k |-> "ftid"], trail |-> 0]
                   [] p = 64 * KB -> HeaderSector(header_1)
                   [] p = 128 * KB -> HeaderSector(header_2)
                   [] p \in {192 * KB, 256 * KB} -> RegionTableSector
                   [] p = MetadataBase -> MetadataTableSector
                   [] p = PayloadBase -> PayloadSector(3)
                   [] OTHER -> ItemSector(LoadItems[CHOOSE i \in 1 .. Len(LoadItems) :
                                                      p = MetadataBase + ItemOffset(i)].value)]
    IN  [x \in { p \div (4 * KB) : p \in DOMAIN at } |-> at[x * 4 * KB]]

\* the descriptors the logs are made of, for an entry of sequence number n:
\* d is the descriptor, data the data bytes of its data sector
DescKinds ==
    {"ZeroP", "ZeroEnd", "ZeroCross", "ZeroWrap", "DataX", "DataY", "DataEnd",
     "DataBeyond", "DataBat", "DataLog", "DataStale", "DataHeader"}

ZeroDesc(n, file_offset, zero_length) ==
    [d |-> [sig |-> "zero", zero_length |-> zero_length, file_offset |-> file_offset,
            sequence_number |-> n]]

DataDesc(n, file_offset, sector) ==
    [d |-> [sig |-> "desc", leading |-> sector.lead, trailing |-> sector.trail,
            file_offset |-> file_offset, sequence_number |-> n],
     data |-> sector.body]

Desc(kind, n) ==
    CASE kind = "ZeroP" -> ZeroDesc(n, PayloadBase, 4 * KB)
      [] kind = "ZeroEnd" -> ZeroDesc(n, LoadFileLen - 4 * KB, 4 * KB)
      [] kind = "ZeroCross" -> ZeroDesc(n, LoadFileLen - 4 * KB, 2 * 4 * KB)
      [] kind = "ZeroWrap" -> ZeroDesc(n, PayloadBase, U64Units - 4 * KB)
      [] kind = "DataX" -> DataDesc(n, PayloadBase, PayloadSector(1))
      [] kind = "DataY" -> DataDesc(n, PayloadBase, PayloadSector(2))
      [] kind = "DataEnd" -> DataDesc(n, LoadFileLen - 4 * KB, PayloadSector(1))
      [] kind = "DataBeyond" -> DataDesc(n, LoadFileLen, PayloadSector(1))
      [] kind = "DataBat" ->
            DataDesc(n, BatBase,
                     [lead |-> [sig |-> "bat", e |-> [bits |-> 6, addr |-> PayloadBase]],
                      body |-> [k |-> "bat", ents |-> << >>], trail |-> 0])
      [] kind = "DataLog" ->
            DataDesc(n, LogOffset + 4 * KB,
                     [lead |-> [sig |-> "data", sequence_high |-> 0],
                      body |-> PayloadSector(2).body, trail |-> 0])
      [] kind = "DataStale" -> DataDesc(n + 1, PayloadBase, PayloadSector(1))
      [] kind = "DataHeader" ->
            DataDesc(n, 128 * KB, HeaderSector([sequence_number |-> 9, log_guid |-> ZERO]))

\* the kinds the logs of two entries are put together from
CoreKinds ==
    {"ZeroP", "ZeroCross", "ZeroWrap", "DataX", "DataY", "DataBat", "DataLog", "DataHeader"}

\* a log entry of the files: [sequence_number, tail, log_guid, kinds,
\* flushed_file_offset, gap], gap being the zero bytes between the end of the
\* entry before it (or the start of the log) and the entry
DataKinds(e) == SelectSeq(e.kinds, LAMBDA k : Desc(k, 0).d.sig = "desc")
EntryLength(e) == (1 + Len(DataKinds(e))) * 4 * KB

RECURSIVE EntryOffset(_, _)
EntryOffset(es, i) ==
    IF i = 1 THEN es[1].gap
    ELSE EntryOffset(es, i - 1) + EntryLength(es[i - 1]) + es[i].gap

EntryHeaderSector(e) ==
    [lead |-> [sig |-> "loge"],
     body |-> [k |-> "loge", entry_length |-> EntryLength(e), tail |-> e.tail,
               sequence_number |-> e.sequence_number, log_guid |-> e.log_guid,
               flushed_file_offset |-> e.flushed_file_offset,
               last_file_offset |-> LoadFileLen,
               descs |-> [j \in 1 .. Len(e.kinds) |-> Desc(e.kinds[j], e.sequence_number).d]],
     trail |-> 0]

EntryDataSector(e, j) ==
    [lead |-> [sig |-> "data", sequence_high |-> 0],
     body |-> Desc(DataKinds(e)[j], e.sequence_number).data,
     trail |-> e.sequence_number]

\* the sectors of a log whose entries follow one another from LogOffset
LogSectors(es) ==
    LET first(i) == (LogOffset + EntryOffset(es, i)) \div (4 * KB)
        owner(x) == CHOOSE i \in 1 .. Len(es) :
                        x \in first(i) .. first(i) + Len(DataKinds(es[i]))
    IN  [x \in UNION { first(i) .. first(i) + Len(DataKinds(es[i])) : i \in 1 .. Len(es) } |->
            IF x = first(owner(x)) THEN EntryHeaderSector(es[owner(x)])
            ELSE EntryDataSector(es[owner(x)], x - first(owner(x)))]

LoadFile(header_1, header_2, es) ==
    [len |-> LoadFileLen, sec |-> LogSectors(es) @@ BaseSectors(header_1, header_2)]

\* headers: which copy has the larger sequence number, or neither, and
\* which of the two names a log
HeaderPairs ==
    { [header_1 |-> [sequence_number |-> q[1], log_guid |-> g1],
       header_2 |-> [sequence_number |-> q[2], log_guid |-> g2]] :
        q \in {<<2, 1>>, <<1, 2>>, <<1, 1>>}, g1 \in {ZERO, LogGuidA}, g2 \in {ZERO, LogGuidA} }

MainHeaders ==
    [header_1 |-> [sequence_number |-> 1, log_guid |-> ZERO],
     header_2 |-> [sequence_number |-> 2, log_guid |-> LogGuidA]]

LogEntry(n, tail, guid, kinds) ==
    [sequence_number |-> n, tail |-> tail, log_guid |-> guid, kinds |-> kinds,
     flushed_file_offset |-> LoadFileLen, gap |-> 0]

\* the entry e written when the file was 1 MiB longer than it is now
Truncated(e) == [e EXCEPT !.flushed_file_offset = LoadFileLen + MB]

\* the entry e (of 4 KiB) in the last 4 KiB of the log, the entries before it
\* taking up `used`
AtLogEnd(e, used) == [e EXCEPT !.gap = LogLength - 4 * KB - used]

\* a log written round the end of the region: the active sequence is the
\* entry 10 in the last 4 KiB and its successor 11 at the start of the
\* region; the two entries of the sequence before, 1 and 2, follow at 4 KiB
WrappedLog ==
    <<LogEntry(11, LogLength - 4 * KB, LogGuidA, << >>),
      LogEntry(1, 4 * KB, LogGuidA, << >>),
      LogEntry(2, 4 * KB, LogGuidA, <<"DataX">>),
      AtLogEnd(LogEntry(10, 4 * KB, LogGuidA, << >>), 4 * 4 * KB)>>

KindSeqs(n) == UNION { [1 .. m -> CoreKinds] : m \in 0 .. n }

\* logs of two entries, the second naming the first as the tail: every
\* choice of at most MaxDescs descriptors for the second entry, the first
\* with none or one
DescLogs ==
    { <<LogEntry(1, 0, LogGuidA, ks1),
        LogEntry(2, 0, LogGuidA, ks2)>> :
        ks1 \in {<< >>, <<"DataX">>}, ks2 \in KindSeqs(MaxDescs) }

\* more logs: none, one entry, entries that do not follow one another, an
\* entry of another log, a head whose tail is itself or no entry, three
\* entries, a log of another GUID, descriptors of the other kinds, a head
\* and a tail entry flushed to a longer file, a log that wraps
ShapeLogs ==
    { << >>,
      <<LogEntry(1, 0, LogGuidA, <<"DataX">>)>>,
      <<LogEntry(1, 0, LogGuidA, <<"DataX">>), LogEntry(3, 0, LogGuidA, <<"DataY">>)>>,
      <<LogEntry(1, 0, LogGuidA, <<"DataX">>), LogEntry(2, 0, LogGuidB, <<"DataY">>)>>,
      <<LogEntry(1, 0, LogGuidA, <<"DataX">>), LogEntry(2, 2 * 4 * KB, LogGuidA, <<"DataY">>)>>,
      <<LogEntry(1, 0, LogGuidA, <<"DataX">>), LogEntry(2, 4 * KB, LogGuidA, <<"DataY">>)>>,
      <<LogEntry(1, 0, LogGuidA, <<"DataX">>), LogEntry(2, 0, LogGuidA, << >>),
        LogEntry(3, 0, LogGuidA, <<"DataY">>)>>,
      <<LogEntry(1, 0, LogGuidB, <<"DataX">>), LogEntry(2, 0, LogGuidB, <<"DataY">>)>>,
      <<LogEntry(1, 0, LogGuidA, <<"DataX">>), LogEntry(2, 0, LogGuidA, <<"DataY", "DataStale">>)>>,
      <<LogEntry(1, 0, LogGuidA, <<"DataX">>), LogEntry(2, 0, LogGuidA, <<"DataY", "DataBeyond">>)>>,
      <<LogEntry(1, 0, LogGuidA, <<"DataX">>), LogEntry(2, 0, LogGuidA, <<"ZeroEnd">>)>>,
      <<LogEntry(1, 0, LogGuidA, <<"DataX">>), LogEntry(2, 0, LogGuidA, <<"DataEnd">>)>>,
      <<LogEntry(1, 0, LogGuidA, <<"DataX">>),
        Truncated(LogEntry(2, 0, LogGuidA, <<"DataY">>))>>,
      <<Truncated(LogEntry(1, 0, LogGuidA, <<"DataX">>)),
        LogEntry(2, 0, LogGuidA, <<"DataY">>)>>,
      WrappedLog }

LoadInputs ==
    { [headers |-> h, log |-> es] :
        h \in HeaderPairs,
        es \in { <<LogEntry(1, 0, LogGuidA, <<"DataX">>),
                   LogEntry(2, 0, LogGuidA, <<"DataY">>)>> } }
    \cup { [headers |-> MainHeaders, log |-> es] : es \in DescLogs \cup ShapeLogs }

NewLoad(f, n) ==
    [loads |-> n, opened |-> f, ran |-> FALSE, writes |-> 0,
     order |-> << >>, last |-> None, candidate |-> None, current |-> None]

InitLoad ==
    /\ \E inp \in LoadInputs :
          file = LoadFile(inp.headers.header_1, inp.headers.header_2, inp.log)
    /\ build = "any"
    /\ pc = "load"
    /\ header_section = None
    /\ metadata_table = None
    /\ metadata = None
    /\ bat = None
    /\ find_log = None
    /\ sequence = EmptySequence
    /\ replay = [entry |-> 0, desc |-> 0]
    /\ hist = NewLoad(file, 1)
    /\ geo = None
    /\ lookup = None
    /\ offset = 0
    /\ rd = None
    /\ delivered = None
    /\ NoPure

Did(step) == [hist EXCEPT !.order = Append(@, step)]

\* lib.rs:362-363  File::open and HeaderSection::read
LoadHeaderSection ==
    /\ pc = "load"
    /\ LET r == HeaderSectionRead(file)
       IN  /\ pc' = IF r.outcome = "ok" THEN "metadata" ELSE r.outcome
           /\ header_section' = IF r.outcome = "ok" THEN r ELSE header_section
    /\ hist' = Did("header_section")
    /\ UNCHANGED <<file, metadata, bat, batvars, readvars, purevars, metadata_table, find_log,
                   sequence, replay, build>>

\* lib.rs:365-379  the metadata region, MetadataTable::read, Metadata::from_table
MetadataOf(f, table, base) ==
    Let(MetadataFromTable(f, table, base),
        LAMBDA md : IF md.outcome # "ok" THEN [outcome |-> md.outcome]
                    ELSE [outcome |-> "ok", metadata_table |-> table, metadata |-> md])

MetadataLoad(f, hs) ==
    Let(FindRegion(hs, REGION_GUID_METADATA),
        LAMBDA region :
            IF region.outcome # "ok" THEN [outcome |-> region.outcome]
            ELSE Let(MetadataTableRead(f, region.entry.file_offset),
                     LAMBDA table :
                         IF table.outcome # "ok" THEN [outcome |-> table.outcome]
                         ELSE MetadataOf(f, table, region.entry.file_offset)))

LoadMetadata ==
    /\ pc = "metadata"
    /\ \E r \in {MetadataLoad(file, header_section)} :
           /\ pc' = IF r.outcome = "ok" THEN "bat" ELSE r.outcome
           /\ metadata_table' = IF r.outcome = "ok" THEN r.metadata_table ELSE metadata_table
           /\ metadata' = IF r.outcome = "ok" THEN r.metadata ELSE metadata
    /\ hist' = Did("metadata")
    /\ UNCHANGED <<file, bat, batvars, readvars, purevars, header_section, find_log, sequence,
                   replay, build>>

\* lib.rs:381-389  the BAT region and Bat::read
BatLoad(f, hs, md) ==
    LET region == FindRegion(hs, REGION_GUID_BAT)
        b == BatRead(f, region.entry.file_offset, md)
    IN  IF region.outcome # "ok" THEN Panic
        ELSE IF b.outcome # "ok" THEN Panic
        ELSE b

LoadBat ==
    /\ pc = "bat"
    /\ LET b == BatLoad(file, header_section, metadata)
       IN  /\ pc' = IF b.outcome = "ok" THEN "try_replay_log" ELSE "panic"
           /\ bat' = IF b.outcome = "ok" THEN b ELSE bat
    /\ hist' = Did("bat")
    /\ UNCHANGED <<file, metadata, batvars, readvars, purevars, header_section, metadata_table,
                   find_log, sequence, replay, build>>

\* lib.rs:398, 528-536, 416-432  try_replay_log: no replay when the current
\* header's log_guid is Guid::ZERO, and load returns Ok(disk); else find_log
\* is entered (step 1)
TryReplayLog ==
    /\ pc = "try_replay_log"
    /\ IF current_header(header_section).log_guid = ZERO
       THEN pc' = "loaded" /\ hist' = Did("no_replay") /\ find_log' = find_log
       ELSE /\ pc' = "find_log"
            /\ hist' = [Did("replay") EXCEPT !.ran = TRUE]
            /\ find_log' = FindLogStart(current_header(header_section))
    /\ UNCHANGED <<file, metadata, bat, batvars, readvars, purevars, header_section, metadata_table,
                   sequence, replay, build>>

\* lib.rs:434-526  one iteration of the outer loop of find_log; the
\* iteration that leaves the loop goes on to the checks after it and to the
\* first descriptor of the sequence (a sequence without descriptors is
\* replayed at once)
FindLogStep ==
    /\ pc = "find_log"
    /\ \E it \in {FindLogIteration(file, current_header(header_section), find_log)} :
         CASE it.outcome = "continue" ->
                /\ find_log' = it.st
                /\ UNCHANGED <<pc, sequence, replay, hist>>
           [] it.outcome \in {"io", "panic"} ->
                /\ pc' = it.outcome
                /\ hist' = Did("find_log")
                /\ UNCHANGED <<find_log, sequence, replay>>
           [] it.outcome = "break" ->
                \E found \in {FindLogFinish(file, it.candidate)} :
                  IF found.outcome = "ok"
                  THEN \E at \in {NextPosition(found.sequence, 1, 1)} :
                         /\ sequence' = found.sequence
                         /\ replay' = at
                         /\ pc' = IF at.entry = 0 THEN "loaded" ELSE "replay"
                         /\ hist' = [Did("find_log") EXCEPT !.candidate = it.candidate,
                                                             !.current = it.current]
                         /\ find_log' = None
                  ELSE /\ pc' = "panic"
                       /\ hist' = [Did("find_log") EXCEPT !.candidate = it.candidate,
                                                             !.current = it.current]
                       /\ UNCHANGED <<find_log, sequence, replay>>
    /\ UNCHANGED <<file, metadata, bat, batvars, readvars, purevars, header_section, metadata_table,
                   build>>

\* lib.rs:539-589  one turn of the loops of try_replay_log: the descriptor at
\* replay is checked and written; after the last one load returns Ok(disk)
ReplayDescriptor ==
    /\ pc = "replay"
    /\ LET entry == sequence.entries[replay.entry].entry
           desc == entry.descriptors[replay.desc]
           at == NextPosition(sequence, replay.entry, replay.desc + 1)
       IN  \E b \in IF build = "any" /\ Overflows(desc) THEN {"debug", "release"} ELSE {build} :
             LET r == ReplayDescriptorOf(file, entry, replay.desc, b = "debug")
                 wrote == r.outcome # "panic"
             IN  /\ build' = b
                 /\ file' = r.file
                 /\ replay' = IF r.outcome = "ok" THEN at ELSE replay
                 /\ pc' = IF r.outcome # "ok" THEN r.outcome
                          ELSE IF at.entry = 0 THEN "loaded" ELSE "replay"
                 /\ hist' = [hist EXCEPT
                               !.writes = IF wrote THEN @ + 1 ELSE @,
                               !.last = [sig |-> desc.sig,
                                         file_offset |-> desc.file_offset,
                                         length |-> IF desc.sig = "zero" THEN desc.zero_length
                                                    ELSE 4 * KB,
                                         file_length |-> file.len,
                                         matches |-> desc.sequence_number
                                                         = entry.header.sequence_number,
                                         wrote |-> wrote]]
    /\ UNCHANGED <<metadata, bat, batvars, readvars, purevars, header_section, metadata_table,
                   find_log, sequence>>

\* the next Vhdx::load of the same file, after the one before has returned
\* Ok(disk)
LoadAgain ==
    /\ pc = "loaded"
    /\ hist.loads < MaxLoads
    /\ pc' = "load"
    /\ hist' = NewLoad(file, hist.loads + 1)
    /\ header_section' = None
    /\ metadata_table' = None
    /\ metadata' = None
    /\ bat' = None
    /\ find_log' = None
    /\ sequence' = EmptySequence
    /\ replay' = [entry |-> 0, desc |-> 0]
    /\ UNCHANGED <<file, batvars, readvars, purevars, build>>

NextLoad ==
    \/ LoadHeaderSection
    \/ LoadMetadata
    \/ LoadBat
    \/ TryReplayLog
    \/ FindLogStep
    \/ ReplayDescriptor
    \/ LoadAgain

SpecLoad == InitLoad /\ [][NextLoad]_vars

\* the steps of one Vhdx::load: the thread that runs load keeps running, so
\* a step of load that can be taken is taken (when and whether the caller
\* loads again is the caller's choice)
LoadSteps ==
    \/ LoadHeaderSection
    \/ LoadMetadata
    \/ LoadBat
    \/ TryReplayLog
    \/ FindLogStep
    \/ ReplayDescriptor

SpecLoadLive == SpecLoad /\ WF_vars(LoadSteps)

(***************************************************************************)
(* Claims about Vhdx::load and log replay (checked under SpecLoad).         *)
(***************************************************************************)

\* load has returned or panicked
Ended == pc \in {"loaded", "panic", "io"}

\* the step of load that hist.order records at i
Position(step) == { i \in 1 .. Len(hist.order) : hist.order[i] = step }

\* the headers of the file as this load opened it, and the copies with the
\* larger sequence_number (both when they are equal)
OpenedHeaders ==
    <<HeaderRead(hist.opened, 64 * KB), HeaderRead(hist.opened, 128 * KB)>>
LargerHeaders ==
    { h \in {OpenedHeaders[1], OpenedHeaders[2]} :
        /\ h.sequence_number >= OpenedHeaders[1].sequence_number
        /\ h.sequence_number >= OpenedHeaders[2].sequence_number }

\* C1: when the current header's log GUID is not zero, the replay of the
\* active sequence completes before load decodes the metadata items and the
\* BAT, so that the metadata and the BAT load returns are the ones decoded
\* from the file as replay left it.
C1_ReplayBeforeDecode ==
    (pc = "loaded" /\ hist.ran) =>
        /\ \A i \in Position("replay") :
              \A j \in Position("metadata") \cup Position("bat") : i < j
        /\ MetadataLoad(file, header_section).outcome = "ok"
        /\ metadata = MetadataLoad(file, header_section).metadata
        /\ bat = BatLoad(file, header_section, metadata)

\* C2: a second load, run right after a load that returned Ok, leaves every
\* byte of the file as the first load left it, whatever the descriptors of
\* the active sequence target.
C2_SecondLoadChangesNothing ==
    (hist.loads >= 2 /\ Ended) => file = hist.opened

\* C4: log replay never extends the file: during load the file keeps the
\* length it had at open, every write of replay lies inside the file, and a
\* descriptor whose range reaches beyond the end of the file makes replay
\* fail without writing.
C4_ReplayNeverExtends ==
    /\ file.len = hist.opened.len
    /\ hist.last # None =>
          /\ hist.last.wrote =>
                hist.last.file_offset + hist.last.length <= hist.last.file_length
          /\ hist.last.file_offset + hist.last.length > hist.last.file_length =>
                ~hist.last.wrote /\ pc = "panic"

\* C5: load runs log discovery and replay exactly when the log_guid of the
\* header copy with the larger sequence_number is not Guid::ZERO; when it is
\* ZERO, load writes nothing and returns with the file as it opened it.
C5_ReplayIffLogGuid ==
    (Position("replay") \cup Position("no_replay") # {}) =>
        /\ \E h \in LargerHeaders : hist.ran <=> (h.log_guid # ZERO)
        /\ ~hist.ran => (pc = "loaded" /\ hist.writes = 0 /\ file = hist.opened)

\* load returned without a replay although the other header copy, the one
\* with the smaller sequence_number, names the log of the file
C5_Witness ==
    /\ pc = "loaded"
    /\ ~hist.ran
    /\ file = hist.opened
    /\ header_section.header_1.sequence_number > header_section.header_2.sequence_number
    /\ header_section.header_1.log_guid = ZERO
    /\ header_section.header_2.log_guid = LogGuidA

\* find_log left its loop with a candidate whose head entry was flushed to a
\* file longer than the file is now
TruncatedFile ==
    /\ hist.candidate # None
    /\ ~is_empty(hist.candidate)
    /\ head(hist.candidate).header.flushed_file_offset > file.len

\* C14: log discovery terminates: for every content of the log region,
\* find_log leaves its outer loop or returns an error after finitely many
\* iterations, after an iteration whose sequence was empty or invalid and
\* after an iteration that found a valid non-empty sequence.
C14_FindLogTerminates == (pc = "find_log") ~> (pc # "find_log")

\* the entry of the current header's log that the file f holds at offset o
\* of the log, if it holds one
RingEntry(f, header, o) == EntryRead(f, header.log_offset + o)
IsRingEntry(f, header, o) ==
    /\ RingEntry(f, header, o).outcome = "ok"
    /\ RingEntry(f, header, o).entry.header.log_guid = header.log_guid
    /\ o + RingEntry(f, header, o).entry.header.entry_length <= header.log_length

RingOffsets(f, header) ==
    { o \in { x * 4 * KB - header.log_offset : x \in DOMAIN f.sec } :
        o >= 0 /\ o < header.log_length /\ IsRingEntry(f, header, o) }

\* the offsets of the entries that follow one another in the ring buffer
\* from the entry at o with consecutive sequence numbers, n at most
RECURSIVE RingChain(_, _, _, _)
RingChain(f, header, o, n) ==
    LET e == RingEntry(f, header, o).entry.header
        next == (o + e.entry_length) % header.log_length
    IN  IF n > 1 /\ IsRingEntry(f, header, next)
           /\ RingEntry(f, header, next).entry.header.sequence_number
                  = e.sequence_number + 1
        THEN <<o>> \o RingChain(f, header, next, n - 1)
        ELSE <<o>>

\* the valid sequences of the ring buffer, as the offsets of their entries:
\* the head entry's tail is the offset of an entry of the sequence
ValidSequences(f, header) ==
    { c \in UNION { { SubSeq(RingChain(f, header, o, Cardinality(RingOffsets(f, header))), 1, n) :
                        n \in 1 .. Len(RingChain(f, header, o,
                                                 Cardinality(RingOffsets(f, header)))) } :
                    o \in RingOffsets(f, header) } :
        \E i \in 1 .. Len(c) : c[i] = RingEntry(f, header, c[Len(c)]).entry.header.tail }

StartOf(f, header, c) == RingEntry(f, header, c[1]).entry.header.sequence_number

\* find_log has run to its end in this load; it returned `sequence`
FindLogEnded == hist.candidate # None
FindLogReturned == FindLogEnded /\ sequence = hist.candidate /\ ~is_empty(sequence)

\* C15: the sequence find_log returns is valid and its starting sequence
\* number is the maximum over all valid sequences of entries of the current
\* header's log in the ring buffer, those that wrap around the end of the
\* log region included; when there is no valid sequence, find_log fails.
C15_ActiveSequenceIsLatest ==
    FindLogEnded =>
        LET header == current_header(header_section)
            valid == ValidSequences(hist.opened, header)
        IN  /\ FindLogReturned =>
                  /\ is_valid(sequence)
                  /\ \A c \in valid :
                        StartOf(hist.opened, header, c) <= sequence.sequence_number
                  /\ \E c \in valid :
                        StartOf(hist.opened, header, c) = sequence.sequence_number
            /\ valid = {} => (~FindLogReturned /\ pc \in {"panic"} \cup Errors)

\* the entries of seq carry log_guid, their sequence numbers go up by one,
\* and seq.sequence_number is the first entry's
Consecutive(seq, log_guid) ==
    /\ \A i \in 1 .. Len(seq.entries) : seq.entries[i].entry.header.log_guid = log_guid
    /\ \A i \in 1 .. Len(seq.entries) - 1 :
          seq.entries[i + 1].entry.header.sequence_number
              = seq.entries[i].entry.header.sequence_number + 1
    /\ ~is_empty(seq) =>
          seq.sequence_number = seq.entries[1].entry.header.sequence_number

\* C16: in every state of log discovery, each LogSequence find_log has
\* built (the current sequence and the candidate) holds only entries whose
\* log_guid is the current header's, the sequence numbers of consecutive
\* entries differ by exactly 1, and its sequence_number is its first
\* entry's.
C16_SequencesAreConsecutive ==
    /\ find_log # None =>
          /\ Consecutive(find_log.current, current_header(header_section).log_guid)
          /\ Consecutive(find_log.candidate, current_header(header_section).log_guid)
    /\ FindLogEnded =>
          /\ Consecutive(hist.current, current_header(header_section).log_guid)
          /\ Consecutive(hist.candidate, current_header(header_section).log_guid)
          /\ Consecutive(sequence, current_header(header_section).log_guid)

\* a scan has read entry 1 and, after it, an entry of the same log with
\* sequence number 3: the sequence it built is entry 1 alone
C16_Witness ==
    /\ pc = "find_log"
    /\ Len(find_log.current.entries) = 1
    /\ find_log.current.sequence_number = 1
    /\ IsRingEntry(file, current_header(header_section), 2 * 4 * KB)
    /\ RingEntry(file, current_header(header_section), 2 * 4 * KB).entry.header.sequence_number = 3

\* the descriptors of the active sequence, as <<entry, descriptor>>, and the
\* order replay is to apply them in: tail to head, stored order in an entry
Descriptors ==
    { p \in (1 .. Len(sequence.entries)) \X (1 .. MaxDescs) :
        p[2] <= Len(sequence.entries[p[1]].entry.descriptors) }
Before(p, q) == p[1] < q[1] \/ (p[1] = q[1] /\ p[2] < q[2])
DescriptorAt(p) == sequence.entries[p[1]].entry.descriptors[p[2]]

\* the 4 KiB sectors of the file (their numbers) that descriptor p targets
Targets(p) ==
    LET desc == DescriptorAt(p)
        length == IF desc.sig = "zero" THEN desc.zero_length ELSE 4 * KB
    IN  { x \in (desc.file_offset \div (4 * KB)) .. (file.len \div (4 * KB)) :
            x * 4 * KB < desc.file_offset + length }

\* what descriptor p writes to a sector: zeros, or leading_bytes, the data of
\* the entry's k-th data sector as it was in the file when it was opened
\* (the data sectors follow the entry's first 4 KiB) and trailing_bytes, p
\* being the k-th Data descriptor of its entry
Written(p) ==
    LET desc == DescriptorAt(p)
        k == Cardinality({ j \in 1 .. p[2] :
                             sequence.entries[p[1]].entry.descriptors[j].sig = "desc" })
        at == current_header(header_section).log_offset
                  + sequence.entries[p[1]].offset + k * 4 * KB
    IN  IF desc.sig = "zero" THEN ZEROS
        ELSE [lead |-> desc.leading, body |-> SectorAt(hist.opened, at).body,
              trail |-> desc.trailing]

\* C17: replay applies the entries of the active sequence from tail to head
\* and the descriptors of an entry in stored order, the k-th Data
\* descriptor of an entry with the entry's k-th data sector: after a
\* successful replay every 4 KiB sector that a descriptor targets holds what
\* the last descriptor covering it writes, leading_bytes, the data sector's
\* 4084 data bytes and trailing_bytes for a Data descriptor, zeros for a
\* Zero descriptor.
C17_LastDescriptorWins ==
    (pc = "loaded" /\ FindLogReturned) =>
        \A p \in Descriptors :
            \A x \in Targets(p) :
                (\A q \in Descriptors : x \in Targets(q) => ~Before(p, q))
                    => SectorAt(file, x * 4 * KB) = Written(p)

\* a replay has ended in which the head entry had two Data descriptors for
\* the payload sector, with the data sectors X and Y, after the tail entry
\* had written X there: the sector holds Y
C17_Witness ==
    /\ pc = "loaded"
    /\ FindLogReturned
    /\ Len(sequence.entries) = 2
    /\ Len(sequence.entries[1].entry.descriptors) = 1
    /\ Len(sequence.entries[2].entry.descriptors) = 2
    /\ \A p \in Descriptors :
          DescriptorAt(p).sig = "desc" /\ DescriptorAt(p).file_offset = PayloadBase
    /\ Written(<<2, 1>>) = PayloadSector(1)
    /\ Written(<<2, 2>>) = PayloadSector(2)
    /\ SectorAt(file, PayloadBase) = PayloadSector(2)

\* C18: during replay a Zero descriptor is applied whenever file_offset +
\* zero_length <= the file length and a Data descriptor whenever
\* file_offset + 4 KiB <= the file length, a write that ends at the end of
\* the file included; replay fails for a descriptor (of its entry's
\* sequence number) only when its range exceeds the file length.
C18_WriteToEndOfFileApplied ==
    (hist.last # None /\ hist.last.matches) =>
        /\ hist.last.file_offset + hist.last.length <= hist.last.file_length
              => (hist.last.wrote /\ pc # "panic")
        /\ ~hist.last.wrote
              => hist.last.file_offset + hist.last.length > hist.last.file_length

\* C11: when the head entry of the active sequence declares a
\* flushed_file_offset greater than the file length, load fails with an
\* error returned to its caller, and no descriptor of the log has been
\* applied to the file.
C11_TruncationIsReturned ==
    TruncatedFile => (pc \in Errors /\ hist.writes = 0 /\ file = hist.opened)

\* try_replay_log failed at the descriptor it reached last: its sequence
\* number is not its entry's, or the bounds checks (or the write) refused
\* its range
ReplayFailed ==
    /\ hist.last # None
    /\ pc \in {"panic"} \cup Errors

\* C21: replay is all-or-nothing with respect to the file: when
\* try_replay_log fails at a descriptor of the active sequence (sequence
\* number different from its entry's, or target range outside the file), no
\* byte of the file has been modified by that load: the file is as it was
\* before load.
C21_ReplayAllOrNothing ==
    ReplayFailed => file = hist.opened

(***************************************************************************)
(* guid.rs: Guid::from_str.  A text is the sequence of its characters, a    *)
(* character being a string of length one; as_bytes gives their ASCII       *)
(* codes.  A u32 is held as its two 16-bit halves [hi, lo], a u16 and a u8  *)
(* as a number.                                                             *)
(***************************************************************************)

Digits == <<"0", "1", "2", "3", "4", "5", "6", "7", "8", "9">>
Upper == <<"A", "B", "C", "D", "E", "F", "G">>
Lower == <<"a", "b", "c", "d", "e", "f", "g">>

IndexIn(cs, c) == CHOOSE i \in 1 .. Len(cs) : cs[i] = c

\* guid.rs:34  value.as_bytes(), one character: b'-' is 45, b'0' 48, b'A' 65,
\* b'a' 97
as_byte(c) ==
    IF c = "-" THEN 45
    ELSE IF \E i \in 1 .. Len(Digits) : Digits[i] = c THEN 48 + IndexIn(Digits, c) - 1
    ELSE IF \E i \in 1 .. Len(Upper) : Upper[i] = c THEN 65 + IndexIn(Upper, c) - 1
    ELSE 97 + IndexIn(Lower, c) - 1

\* guid.rs:105-112  hex_digit_to_nibble; -1 is panic!("unknown char")
hex_digit_to_nibble(input) ==
    IF input >= 48 /\ input <= 57 THEN input - 48
    ELSE IF input >= 97 /\ input <= 102 THEN input - 97 + 10
    ELSE IF input >= 65 /\ input <= 70 THEN input - 65 + 10
    ELSE -1

from_le_bytes(b0, b1) == b0 + 256 * b1

\* guid.rs:68-70  u16::from_be_bytes; u32::from_be_bytes is two of them
from_be_bytes(b0, b1) == 256 * b0 + b1

\* guid.rs:33-76  Guid::from_str.  The loop gives the character at i (from
\* 0) that is not a hyphen the nibble index i - skipped_chars; no two
\* characters get the same one, so the |= of a byte's two nibbles is their sum
from_str(text) ==
    LET value == [i \in 1 .. Len(text) |-> as_byte(text[i])]
        hex == { i \in 1 .. Len(value) : value[i] # 45 }
        skipped_chars(i) == Cardinality({ k \in 1 .. i - 1 : value[k] = 45 })
        nibble_index(i) == (i - 1) - skipped_chars(i)
        nibble(n) == IF \E i \in hex : nibble_index(i) = n
                     THEN hex_digit_to_nibble(value[CHOOSE i \in hex : nibble_index(i) = n])
                     ELSE 0
        bytes == [b \in 0 .. 15 |-> 16 * nibble(2 * b) + nibble(2 * b + 1)]
    IN  IF Len(value) # 36 THEN Panic
        ELSE IF \E i \in hex : hex_digit_to_nibble(value[i]) = -1 THEN Panic
        ELSE IF \E i \in hex : nibble_index(i) \div 2 >= 16 THEN Panic
        ELSE [outcome |-> "ok",
              data_1 |-> [hi |-> from_be_bytes(bytes[0], bytes[1]),
                          lo |-> from_be_bytes(bytes[2], bytes[3])],
              data_2 |-> from_be_bytes(bytes[4], bytes[5]),
              data_3 |-> from_be_bytes(bytes[6], bytes[7]),
              data_4 |-> [k \in 1 .. 8 |-> bytes[7 + k]]]

(***************************************************************************)
(* SpecGuid: Guid::from_str on the text of the BAT region's GUID in both    *)
(* cases, on the texts with one digit that is not 0, and on texts that are  *)
(* not canonical.                                                           *)
(***************************************************************************)

\* lib.rs:26, guid.rs:127
RegionGuidBatText ==
    <<"2", "D", "C", "2", "7", "7", "6", "6", "-", "F", "6", "2",
    "3", "-", "4", "2", "0", "0", "-", "9", "D", "6", "4", "-",
    "1", "1", "5", "E", "9", "B", "F", "D", "4", "A", "0", "8">>

\* the characters of a text turned to lower case
ToLower(text) ==
    [i \in 1 .. Len(text) |->
        IF \E k \in 1 .. Len(Upper) : Upper[k] = text[i]
        THEN Lower[IndexIn(Upper, text[i])] ELSE text[i]]

\* where the canonical text has its hyphens (from 1)
HyphenAt == {9, 14, 19, 24}

ZeroText == [i \in 1 .. 36 |-> IF i \in HyphenAt THEN "-" ELSE "0"]

GuidTexts ==
    {RegionGuidBatText, ToLower(RegionGuidBatText), ZeroText}
    \cup { [ZeroText EXCEPT ![p] = c] :
             p \in (1 .. 36) \ HyphenAt, c \in {"1", "9", "a", "f", "A", "F"} }
    \cup { [ZeroText EXCEPT ![p] = c] : p \in {1, 9, 36}, c \in {"g", "G", "-"} }
    \cup { SubSeq(RegionGuidBatText, 1, 35), Append(RegionGuidBatText, "0"),
           [ZeroText EXCEPT ![9] = "1"],
           [[ZeroText EXCEPT ![9] = "1"] EXCEPT ![10] = "-"] }

InitGuid ==
    /\ NoLoad
    /\ guid_text \in GuidTexts
    /\ guid_parsed = None
    /\ table_entry = None
    /\ got = None
    /\ metadata = None
    /\ geo = None
    /\ lookup = None
    /\ file = None
    /\ bat = None
    /\ offset = 0
    /\ rd = None
    /\ delivered = None

\* guid.rs:33-76  one call of Guid::from_str
FromStr ==
    /\ guid_parsed = None
    /\ guid_parsed' = from_str(guid_text)
    /\ UNCHANGED <<diskvars, batvars, readvars, loadvars, guid_text, table_entry, got>>

NextGuid == FromStr

SpecGuid == InitGuid /\ [][NextGuid]_vars

(***************************************************************************)
(* Claims about Guid::from_str (checked under SpecGuid).                    *)
(***************************************************************************)

\* 36 characters, hyphens at positions 8, 13, 18, 23 (from 0), hex digits of
\* either case elsewhere
Canonical(text) ==
    /\ Len(text) = 36
    /\ \A i \in 1 .. 36 :
          IF i \in HyphenAt THEN text[i] = "-"
          ELSE \E k \in 1 .. 16 : text[i] \in {(Digits \o SubSeq(Upper, 1, 6))[k],
                                               (Digits \o SubSeq(Lower, 1, 6))[k]}

\* the value of a hex digit, by its place among the sixteen digits
HexValue(c) ==
    (CHOOSE k \in 1 .. 16 : c \in {(Digits \o SubSeq(Upper, 1, 6))[k],
                                   (Digits \o SubSeq(Lower, 1, 6))[k]}) - 1

\* the 16 bytes (from 0) that the 32 hex digits of a canonical text spell
HexDecode(text) ==
    LET digits == SelectSeq(text, LAMBDA c : c # "-")
    IN  [b \in 0 .. 15 |-> 16 * HexValue(digits[2 * b + 1]) + HexValue(digits[2 * b + 2])]

\* C13: for every canonical GUID text, from_str hex-decodes the 32 nibbles in
\* order into 16 bytes and yields data_1, data_2, data_3 as the big-endian
\* values of bytes 0..4, 4..6, 6..8 and data_4 as bytes 8..16 unchanged;
\* "2DC27766-F623-4200-9D64-115E9BFD4A08" yields (0x2DC27766, 0xF623,
\* 0x4200, [9D,64,11,5E,9B,FD,4A,08]).
C13_FromStrBigEndian ==
    (guid_parsed # None /\ Canonical(guid_text)) =>
        LET bytes == HexDecode(guid_text)
        IN  /\ guid_parsed.outcome = "ok"
            /\ guid_parsed.data_1.hi = bytes[0] * 256 + bytes[1]
            /\ guid_parsed.data_1.lo = bytes[2] * 256 + bytes[3]
            /\ guid_parsed.data_2 = bytes[4] * 256 + bytes[5]
            /\ guid_parsed.data_3 = bytes[6] * 256 + bytes[7]
            /\ guid_parsed.data_4 = [k \in 1 .. 8 |-> bytes[7 + k]]
            /\ guid_text = RegionGuidBatText =>
                  /\ guid_parsed.data_1 = [hi |-> 11714, lo |-> 30566]
                  /\ guid_parsed.data_2 = 63011
                  /\ guid_parsed.data_3 = 16896
                  /\ guid_parsed.data_4 = <<157, 100, 17, 94, 155, 253, 74, 8>>

\* the text of the test of guid.rs in lower case has been parsed
C13_Witness ==
    /\ guid_text = ToLower(RegionGuidBatText)
    /\ Canonical(guid_text)
    /\ guid_parsed # None
    /\ guid_parsed.outcome = "ok"
    /\ guid_parsed.data_1 = [hi |-> 11714, lo |-> 30566]
    /\ guid_parsed.data_4 = <<157, 100, 17, 94, 155, 253, 74, 8>>

(***************************************************************************)
(* SpecMeta: MetadataTableEntry::read on entries of every offset and length *)
(* around its bounds, MetadataTable::read on a table that holds such an     *)
(* entry, and MetadataTable::get on tables (values of the struct            *)
(* MetadataTable) of up to MaxEntries entries, empty and not, of two item   *)
(* kinds.  The metadata region is at 2 MiB and holds an item at 64 KiB and  *)
(* another at 68 KiB.                                                       *)
(***************************************************************************)

MaxEntries == 2

\* the item kinds of the tables, and a kind no table holds
MetaGuids == {GUID_FileParameters, GUID_LogicalSectorSize}
AbsentGuid == GUID_VirtualDiskSize

\* the 32 bytes of a table entry: item_id, offset (in units of 512 bytes) and
\* length (in bytes)
RawTableEntries ==
    { [item_id |-> g, offset |-> o, length |-> n] :
        g \in MetaGuids,
        o \in {0, 4 * KB, 64 * KB - 1, 64 * KB, 64 * KB + 4 * KB},
        n \in {0, 4, 1024 * 1024, 1024 * 1024 + 1} }

\* lib.rs:190-199  the values of MetadataTableEntry: is_empty as
\* MetadataTableEntry::read sets it (lib.rs:219)
TableEntries ==
    { [outcome |-> "ok", item_id |-> g, offset |-> e.offset, length |-> e.length,
       is_empty |-> (e.length = 0)] :
        g \in MetaGuids,
        e \in { [offset |-> 0, length |-> 0],
                [offset |-> 64 * KB, length |-> 4],
                [offset |-> 64 * KB + 4 * KB, length |-> 4] } }

\* lib.rs:234-237  the values of MetadataTable
Tables ==
    { [outcome |-> "ok", entries |-> es] :
        es \in UNION { [1 .. n -> TableEntries] : n \in 0 .. MaxEntries } }

\* a file whose metadata table holds the entry e after an entry for the item
\* at 64 KiB, and whose two items hold the values 1 and 8
MetaFile(e) ==
    [len |-> MetadataBase + MB,
     sec |-> [x \in {MetadataBase \div (4 * KB), (MetadataBase + 64 * KB) \div (4 * KB),
                     (MetadataBase + 64 * KB) \div (4 * KB) + 1} |->
                IF x = MetadataBase \div (4 * KB)
                THEN [lead |-> [sig |-> "metadata"],
                      body |-> [k |-> "mtab",
                                entries |-> <<[item_id |-> GUID_VirtualDiskId,
                                               offset |-> 64 * KB, length |-> 16], e>>],
                      trail |-> 0]
                ELSE IF x = (MetadataBase + 64 * KB) \div (4 * KB)
                THEN ItemSector(512 \div 512)
                ELSE ItemSector(4096 \div 512)]]

InitMeta ==
    /\ table_entry \in RawTableEntries
    /\ file = MetaFile(table_entry)
    /\ metadata_table \in Tables
    /\ pc = "none"
    /\ header_section = None
    /\ find_log = None
    /\ sequence = EmptySequence
    /\ replay = [entry |-> 0, desc |-> 0]
    /\ build = "any"
    /\ hist = None
    /\ got = None
    /\ guid_text = None
    /\ guid_parsed = None
    /\ metadata = None
    /\ geo = None
    /\ lookup = None
    /\ bat = None
    /\ offset = 0
    /\ rd = None
    /\ delivered = None

\* what a call leaves behind
Got(res) ==
    /\ got' = res
    /\ UNCHANGED <<diskvars, batvars, readvars, loadvars, guid_text, guid_parsed,
                   table_entry>>

\* lib.rs:202-230  MetadataTableEntry::read on the 32 bytes of table_entry
MetadataTableEntryReadCall ==
    Got([call |-> "entry_read", res |-> MetadataTableEntryRead(table_entry)])

\* lib.rs:240-256  MetadataTable::read on the table of the file
MetadataTableReadCall ==
    Got([call |-> "table_read", res |-> MetadataTableRead(file, MetadataBase)])

\* lib.rs:258-268  MetadataTable::get::<T> on metadata_table
MetadataTableGetCall ==
    \E g \in MetaGuids \cup {AbsentGuid} :
        Got([call |-> "get", guid |-> g,
             res |-> MetadataTableGet(metadata_table, file, MetadataBase, g)])

NextMeta == MetadataTableEntryReadCall \/ MetadataTableReadCall \/ MetadataTableGetCall

SpecMeta == InitMeta /\ [][NextMeta]_vars

(***************************************************************************)
(* Claims about the metadata table (checked under SpecMeta).                *)
(***************************************************************************)

\* the entries of metadata_table that are not empty and carry the GUID g
NonEmptyWith(g) ==
    { i \in 1 .. Len(metadata_table.entries) :
        /\ metadata_table.entries[i].item_id = g
        /\ ~metadata_table.entries[i].is_empty }

C20_EmptyEntryAccepted ==
    /\ (got # None /\ got.call = "entry_read") =>
          /\ (table_entry.length = 0 /\ table_entry.offset = 0)
                => (got.res.outcome = "ok" /\ got.res.is_empty)
          /\ (table_entry.length = 0 /\ table_entry.offset # 0)
                => got.res.outcome # "ok"
          /\ (table_entry.length > 0 /\ table_entry.offset < 64 * KB)
                => got.res.outcome # "ok"
          /\ (table_entry.length > 0 /\ table_entry.length <= 1024 * 1024
                 /\ table_entry.offset >= 64 * KB)
                => (got.res.outcome = "ok" /\ ~got.res.is_empty)
    /\ (got # None /\ got.call = "table_read"
           /\ table_entry.length = 0 /\ table_entry.offset = 0) =>
          /\ got.res.outcome = "ok"
          /\ got.res.entries[2].is_empty

====
